---- MODULE Spec2Model ----
(***************************************************************************)
(* Multi-Column-Grid: the grid renderer (src/src/main.ts: parse,           *)
(* buildGrid, renderGrid, makeTemplate) and the image context menu         *)
(* (src/main.ts: updateImageMarkdownInEditor).                             *)
(*                                                                         *)
(* Text is modelled as a sequence of atoms.  An atom is an indivisible     *)
(* piece of text: a single character where the code looks at characters    *)
(* (digits, the letters A..Z, ":", "|", "$", " "), or a whole word where    *)
(* the code only compares it (keywords, sentinels, opaque text).  A block  *)
(* or a document is a sequence of lines, i.e. the result of split("\n").   *)
(***************************************************************************)
EXTENDS Integers, Sequences, FiniteSets, TLC

VARIABLES
    \* ---- grid renderer (src/src/main.ts) ----
    src,        \* the text of the code block, as its lines
    origin,     \* how the block came to be: typed, or makeTemplate(cols, rows)
    pc,         \* position of the renderGrid call
    settings,   \* GridSettings returned by parse
    cells,      \* GridCell[] returned by parse
    slots,      \* the children of the grid container, in document order
    i,          \* index (1-based) of the cell the injection loop is at
    trace,      \* history of the render calls of the injection loop
    \* ---- image context menu (src/main.ts) ----
    view,       \* whether the active view is a markdown view
    doc,        \* the lines of the active editor
    cursor,     \* editor.getCursor().line (0-based)
    written,    \* the line numbers passed to editor.setLine by the last action
    notice,     \* the result of the last action
    request     \* the (position, size) arguments of the last action

gridVars == <<src, origin, pc, settings, cells, slots, i, trace>>
imageVars == <<view, doc, cursor, written, notice, request>>
vars == <<src, origin, pc, settings, cells, slots, i, trace,
          view, doc, cursor, written, notice, request>>

(***************************************************************************)
(* Bounds of the model.                                                    *)
(***************************************************************************)
MaxBodyLines == 3
MaxTemplateCols == 3
MaxTemplateRows == 2
MaxTemplateCells == 60
MaxModifiers == 2
MaxDocLines == 4
MaxLineLen == 24

(***************************************************************************)
(* Characters and strings.                                                 *)
(***************************************************************************)
Digits == <<"0", "1", "2", "3", "4", "5", "6", "7", "8", "9">>

Letters == <<"A", "B", "C", "D", "E", "F", "G", "H", "I", "J", "K", "L", "M",
             "N", "O", "P", "Q", "R", "S", "T", "U", "V", "W", "X", "Y", "Z">>

CodeOfA == 65

IsDigit(a) == \E d \in 1..Len(Digits) : Digits[d] = a

DigitVal(a) == (CHOOSE d \in 1..Len(Digits) : Digits[d] = a) - 1

IsUpper(a) == \E l \in 1..Len(Letters) : Letters[l] = a

\* "X".charCodeAt(0) for an uppercase letter
charCodeAt(a) == CodeOfA - 1 + (CHOOSE l \in 1..Len(Letters) : Letters[l] = a)

\* String.fromCharCode(n): a letter for 65..90, some other character beyond
fromCharCode(n) ==
    IF n >= CodeOfA /\ n < CodeOfA + Len(Letters)
    THEN Letters[n - CodeOfA + 1]
    ELSE "chr" \o ToString(n)

\* the white space trim removes
IsWhite(a) == a \in {" ", "\n"}

SetMin(S) == CHOOSE x \in S : \A y \in S : x <= y

SetMax(S) == CHOOSE x \in S : \A y \in S : x >= y

\* String.prototype.trim
Trim(s) ==
    LET keep == {k \in 1..Len(s) : ~IsWhite(s[k])}
    IN  IF keep = {} THEN <<>> ELSE SubSeq(s, SetMin(keep), SetMax(keep))

\* String.prototype.split(sep) for a one-character separator
Split(s, sep) ==
    LET at == {k \in 1..Len(s) : s[k] = sep}
        n == Cardinality(at)
        nth(j) == IF j = 0 THEN 0
                  ELSE IF j = n + 1 THEN Len(s) + 1
                  ELSE CHOOSE k \in at : Cardinality({m \in at : m < k}) = j - 1
    IN  [j \in 1..(n + 1) |-> SubSeq(s, nth(j - 1) + 1, nth(j) - 1)]

\* the value of a string of decimal digits
RECURSIVE DecVal(_)
DecVal(ds) ==
    IF ds = <<>> THEN 0
    ELSE DecVal(SubSeq(ds, 1, Len(ds) - 1)) * 10 + DigitVal(ds[Len(ds)])

\* String(n) / template interpolation of an integer
RECURSIVE ToStr(_)
ToStr(n) ==
    IF n < 0 THEN <<"-">> \o ToStr(-n)
    ELSE IF n < 10 THEN <<Digits[n + 1]>>
    ELSE ToStr(n \div 10) \o <<Digits[(n % 10) + 1]>>

\* the value of a destructured element that does not exist
Undefined == <<"<undefined>">>

AllDigits(s) == \A k \in 1..Len(s) : IsDigit(s[k])

\* Number(v), for v over digits, signs, blanks and words: [nan, val]
Number(v) ==
    LET t == Trim(v)
    IN  IF v = Undefined THEN [nan |-> TRUE, val |-> 0]
        ELSE IF t = <<>> THEN [nan |-> FALSE, val |-> 0]
        ELSE IF AllDigits(t) THEN [nan |-> FALSE, val |-> DecVal(t)]
        ELSE IF Len(t) >= 2 /\ t[1] \in {"-", "+"} /\ AllDigits(Tail(t))
             THEN [nan |-> FALSE,
                   val |-> IF t[1] = "-" THEN 0 - DecVal(Tail(t)) ELSE DecVal(Tail(t))]
        ELSE [nan |-> TRUE, val |-> 0]

\* Number(v) || dflt : NaN and 0 are falsy
NumberOr(v, dflt) ==
    LET n == Number(v)
    IN  IF n.nan \/ n.val = 0 THEN dflt ELSE n.val


(***************************************************************************)
(* Grid renderer: parse.                                                    *)
(***************************************************************************)
SettingsMarker == <<"grid-settings">>

StartPrefix == "=== start-grid:"

EndMarker == <<"=== end-grid">>

\* the settings object parse starts from
DefaultSettings ==
    [columns |-> 2, rows |-> 2, showBorders |-> TRUE, dynamicHeight |-> TRUE,
     invisibleMode |-> FALSE, cellHeight |-> Undefined,
     colWidths |-> Undefined, rowHeights |-> Undefined]

\* line.match(/^=== cell ([A-Z]\d+) ===$/)
IsCellMarker(line) ==
    /\ Len(line) >= 4
    /\ line[1] = "=== cell "
    /\ IsUpper(line[2])
    /\ \A k \in 3..(Len(line) - 1) : IsDigit(line[k])
    /\ line[Len(line)] = " ==="

\* m[1] of that match
MarkerId(line) == SubSeq(line, 2, Len(line) - 1)

\* NewCell keeping the 1-based row number
NewCell_RowNotShifted(id) ==
    [id |-> id,
     row |-> DecVal(Tail(id)),
     column |-> charCodeAt(id[1]) - CodeOfA,
     content |-> <<>>]

\* the GridCell a marker opens
NewCell(id) ==
    [id |-> id,
     row |-> DecVal(Tail(id)) - 1,
     column |-> charCodeAt(id[1]) - CodeOfA,
     content |-> <<>>]

\* buf.join("\n"), from line k on
RECURSIVE JoinFrom(_, _)
JoinFrom(buf, k) ==
    IF k > Len(buf) THEN <<>>
    ELSE IF k = Len(buf) THEN buf[k]
    ELSE buf[k] \o <<"\n">> \o JoinFrom(buf, k + 1)

Join(buf) == JoinFrom(buf, 1)

\* the switch over the key of a settings line
ApplySetting(s, line) ==
    LET parts == Split(line, ":")
        k == Trim(parts[1])
        v == IF Len(parts) >= 2 THEN Trim(parts[2]) ELSE Undefined
    IN  CASE k = <<"columns">> -> [s EXCEPT !.columns = NumberOr(v, 2)]
          [] k = <<"rows">> -> [s EXCEPT !.rows = NumberOr(v, 2)]
          [] k = <<"show-borders">> -> [s EXCEPT !.showBorders = (v = <<"true">>)]
          [] k = <<"cell-height">> -> [s EXCEPT !.cellHeight = v]
          [] k = <<"dynamic-height">> -> [s EXCEPT !.dynamicHeight = (v = <<"true">>)]
          [] k = <<"invisible-mode">> -> [s EXCEPT !.invisibleMode = (v = <<"true">>)]
          [] k = <<"col-widths">> -> [s EXCEPT !.colWidths = v]
          [] k = <<"row-heights">> -> [s EXCEPT !.rowHeights = v]
          [] OTHER -> s

\* close the open cell (cur is <<>> for null, <<cell>> otherwise)
Finalize(st) ==
    IF st.cur = <<>> THEN st
    ELSE [st EXCEPT !.cells = Append(st.cells,
                                     [st.cur[1] EXCEPT !.content = Trim(Join(st.buf))]),
                    !.buf = <<>>]

\* one iteration of the loop over src.split("\n")
ParseLine(st, raw) ==
    LET line == Trim(raw)
    IN  IF line = SettingsMarker THEN [st EXCEPT !.inSettings = TRUE]
        ELSE IF st.inSettings /\ line = <<>> THEN [st EXCEPT !.inSettings = FALSE]
        ELSE IF st.inSettings THEN [st EXCEPT !.s = ApplySetting(st.s, line)]
        ELSE IF IsCellMarker(line)
             THEN [Finalize(st) EXCEPT !.cur = <<NewCell(MarkerId(line))>>]
        ELSE IF (line # <<>> /\ line[1] = StartPrefix) \/ line = EndMarker THEN st
        ELSE IF st.cur # <<>> THEN [st EXCEPT !.buf = Append(st.buf, raw)]
        ELSE st

\* the loop over lines[lo..hi], in order.  The range is halved and the state
\* after the first half is bound as a value, which keeps the evaluation shallow.
RECURSIVE ParseLoop(_, _, _, _)
ParseLoop(st, lines, lo, hi) ==
    IF lo > hi THEN st
    ELSE IF lo = hi THEN ParseLine(st, lines[lo])
    ELSE LET mid == (lo + hi) \div 2
         IN  CHOOSE end \in {ParseLoop(half, lines, mid + 1, hi) :
                                half \in {ParseLoop(st, lines, lo, mid)}} : TRUE

parse(lines) ==
    LET start == [s |-> DefaultSettings, cells |-> <<>>, cur |-> <<>>,
                  inSettings |-> FALSE, buf |-> <<>>]
        end == Finalize(ParseLoop(start, lines, 1, Len(lines)))
    IN  [settings |-> end.s, cells |-> end.cells]

(***************************************************************************)
(* Grid renderer: buildGrid.  A slot is one div.grid-cell of the container. *)
(***************************************************************************)
HasCell(cs, id) == \E k \in 1..Len(cs) : cs[k].id = id

\* the body of the inner loop
NewSlot(r, col, cs) ==
    LET id == <<fromCharCode(CodeOfA + col)>> \o ToStr(r + 1)
    IN  [id |-> id, gridRow |-> r + 1, gridColumn |-> col + 1,
         placeholder |-> ~HasCell(cs, id), rendered |-> <<>>, fixed |-> 0]

RECURSIVE ColLoop(_, _, _, _)
ColLoop(s, cs, r, col) ==
    IF col < s.columns THEN <<NewSlot(r, col, cs)>> \o ColLoop(s, cs, r, col + 1)
    ELSE <<>>

RECURSIVE RowLoop(_, _, _)
RowLoop(s, cs, r) ==
    IF r < s.rows THEN ColLoop(s, cs, r, 0) \o RowLoop(s, cs, r + 1)
    ELSE <<>>

buildGrid(s, cs) == RowLoop(s, cs, 0)

\* querySelector matching the column letter alone
querySelector_ByLetter(sl, id) ==
    LET hit == {k \in 1..Len(sl) : sl[k].id[1] = id[1]}
    IN  IF hit = {} THEN 0 ELSE SetMin(hit)

\* grid.querySelector("[data-cell='<id>']"): the first slot with that id, 0 for null
querySelector(sl, id) ==
    LET hit == {k \in 1..Len(sl) : sl[k].id = id}
    IN  IF hit = {} THEN 0 ELSE SetMin(hit)

(***************************************************************************)
(* Grid renderer: makeTemplate.                                             *)
(***************************************************************************)
\* the line of three backquotes that opens and closes the fenced block
Fence == <<"<fence>">>

TemplateCell(cellId) ==
    << <<"=== cell ">> \o cellId \o <<" ===">>,
       <<"<!-- start of ">> \o cellId \o <<" -->">>,
       <<"Content for ">> \o cellId,
       <<"<!-- end of ">> \o cellId \o <<" -->">>,
       <<>> >>

RECURSIVE TemplateCols(_, _, _)
TemplateCols(cols, r, c) ==
    IF c < cols
    THEN TemplateCell(<<fromCharCode(CodeOfA + c)>> \o ToStr(r)) \o TemplateCols(cols, r, c + 1)
    ELSE <<>>

RECURSIVE TemplateRows(_, _, _)
TemplateRows(cols, rows, r) ==
    IF r <= rows THEN TemplateCols(cols, r, 0) \o TemplateRows(cols, rows, r + 1)
    ELSE <<>>

\* makeTemplate writing the two counts to each other's setting
makeTemplate_CountsSwapped(cols, rows, dyn) ==
    << Fence,
       <<StartPrefix, " ", "ID_", "now">>,
       <<>>,
       SettingsMarker,
       <<"columns", ":", " ">> \o ToStr(rows),
       <<"rows", ":", " ">> \o ToStr(cols),
       <<"show-borders", ":", " ", "true">>,
       IF dyn THEN <<"dynamic-height", ":", " ", "true">>
              ELSE <<"cell-height", ":", " ", "120px">>,
       <<>> >>
    \o TemplateRows(cols, rows, 1)
    \o <<EndMarker, Fence>>

makeTemplate(cols, rows, dyn) ==
    << Fence,
       <<StartPrefix, " ", "ID_", "now">>,
       <<>>,
       SettingsMarker,
       <<"columns", ":", " ">> \o ToStr(cols),
       <<"rows", ":", " ">> \o ToStr(rows),
       <<"show-borders", ":", " ", "true">>,
       IF dyn THEN <<"dynamic-height", ":", " ", "true">>
              ELSE <<"cell-height", ":", " ", "120px">>,
       <<>> >>
    \o TemplateRows(cols, rows, 1)
    \o <<EndMarker, Fence>>


(***************************************************************************)
(* The blocks a user may have typed, and the templates the insert commands *)
(* may have produced.                                                      *)
(***************************************************************************)
\* all sequences over S of length 0..n
RECURSIVE SeqsUpTo(_, _)
SeqsUpTo(S, n) ==
    IF n = 0 THEN {<<>>}
    ELSE LET shorter == SeqsUpTo(S, n - 1)
         IN  shorter \cup {Append(q, x) : q \in {r \in shorter : Len(r) = n - 1}, x \in S}

StartLine == <<StartPrefix, " ", "ID_", "1">>

Marker(id) == <<"=== cell ">> \o id \o <<" ===">>

\* what may follow the key on a settings line
SettingTails ==
    { <<>>, <<":">>, <<":", " ", "1">>, <<":", " ", "2">>, <<":", " ", "3">>,
      <<":", " ", "0">>, <<":", " ", "-", "1">>, <<":", " ", "abc">> }

SettingsSection(ct, rt) ==
    <<SettingsMarker, <<"columns">> \o ct, <<"rows">> \o rt, <<>>>>

AllSections == {<<>>} \cup {SettingsSection(ct, rt) : ct, rt \in SettingTails}

FewSections ==
    { <<>>,
      SettingsSection(<<":", " ", "3">>, <<":", " ", "1">>),
      SettingsSection(<<":", " ", "-", "1">>, <<":", " ", "1">>) }

BodyLines ==
    { Marker(<<"A", "1">>), <<" ">> \o Marker(<<"B", "1">>) \o <<" ">>,
      Marker(<<"A", "2">>), Marker(<<"D", "1">>), Marker(<<"A", "0", "1">>),
      Marker(<<"a", "1">>), <<"x">>, <<>>, SettingsMarker }

AllBodies == SeqsUpTo(BodyLines, MaxBodyLines)

FewBodies ==
    { <<>>,
      <<Marker(<<"A", "1">>), <<"x">>, Marker(<<"D", "1">>), <<"y">>>>,
      <<Marker(<<"A", "1">>), <<"x">>, Marker(<<"A", "1">>), <<"y">>,
        Marker(<<"B", "1">>)>> }

TypedBlocks ==
    {<<StartLine, <<>>>> \o sec \o body \o <<EndMarker>> : sec \in AllSections, body \in FewBodies}
    \cup
    {<<StartLine, <<>>>> \o sec \o body \o <<EndMarker>> : sec \in FewSections, body \in AllBodies}
    \cup
    {body \o <<EndMarker>> : body \in FewBodies}

\* the column counts the template is generated for: the letters run out after 26
TemplateColumnCounts == (1..MaxTemplateCols) \cup {Len(Letters), Len(Letters) + 1}

\* the row counts: the commands ask for 6 rows; 10 has two digits
TemplateRowCounts == (1..MaxTemplateRows) \cup {6, 10}

\* pre > code holds the block without its fences
CodeText(text) ==
    IF Len(text) >= 2 /\ text[1] = Fence /\ text[Len(text)] = Fence
    THEN SubSeq(text, 2, Len(text) - 1)
    ELSE text

(***************************************************************************)
(* Grid renderer: processBlocks and renderGrid.                             *)
(***************************************************************************)
\* txt.includes("=== start-grid:")
IncludesStart(text) ==
    \E l \in 1..Len(text) : \E k \in 1..Len(text[l]) : text[l][k] = StartPrefix

\* MarkdownRenderer.renderMarkdown appends the rendered content of cell k to the target
renderMarkdown(sl, target, k) ==
    [sl EXCEPT ![target].rendered = Append(@, k)]

\* fixImages(target, columns)
fixImages(sl, target) ==
    [sl EXCEPT ![target].fixed = @ + 1]

\* a catch inside the loop, which goes on with the cell
OnRenderError_Swallowed == "resumed"

\* where the catch block leaves the renderGrid call
OnRenderError == "caught"

\* where the loop goes after a cell has no slot: continue
OnNoTarget(k) == k + 1

InitGrid ==
    /\ src = <<>>
    /\ origin = [kind |-> "none", cols |-> 0, rows |-> 0]
    /\ pc = "idle"
    /\ settings = DefaultSettings
    /\ cells = <<>>
    /\ slots = <<>>
    /\ i = 0
    /\ trace = <<>>

\* the user types a block into the note
TypeBlock ==
    /\ pc = "idle"
    /\ \E b \in TypedBlocks : src' = b
    /\ origin' = [kind |-> "typed", cols |-> 0, rows |-> 0]
    /\ pc' = "ready"
    /\ UNCHANGED <<settings, cells, slots, i, trace>>
    /\ UNCHANGED imageVars

\* an insert command: ed.replaceSelection(makeTemplate(cols, rows, dyn));
\* the text is parsed as produced, or as the host hands it over (without fences)
InsertTemplate ==
    /\ pc = "idle"
    /\ \E cols \in TemplateColumnCounts, rows \in TemplateRowCounts, dyn \in BOOLEAN :
         /\ cols * rows <= MaxTemplateCells
         /\ \E t \in {makeTemplate(cols, rows, dyn), CodeText(makeTemplate(cols, rows, dyn))} :
              src' = t
         /\ origin' = [kind |-> "template", cols |-> cols, rows |-> rows]
    /\ pc' = "ready"
    /\ UNCHANGED <<settings, cells, slots, i, trace>>
    /\ UNCHANGED imageVars

\* processBlocks on a code block that is not a grid
ProcessOther ==
    /\ pc = "ready"
    /\ ~IncludesStart(src)
    /\ pc' = "ignored"
    /\ UNCHANGED <<src, origin, settings, cells, slots, i, trace>>
    /\ UNCHANGED imageVars

\* renderGrid up to the loop: parse, buildGrid, pre.replaceWith(grid)
RenderGridStart ==
    /\ pc = "ready"
    /\ IncludesStart(src)
    /\ LET p == parse(src)
       IN  /\ settings' = p.settings
           /\ cells' = p.cells
           /\ slots' = buildGrid(p.settings, p.cells)
    /\ i' = 1
    /\ pc' = "loop"
    /\ UNCHANGED <<src, origin, trace>>
    /\ UNCHANGED imageVars

\* the loop is over
LoopEnd ==
    /\ pc = "loop"
    /\ i > Len(cells)
    /\ pc' = "done"
    /\ UNCHANGED <<src, origin, settings, cells, slots, i, trace>>
    /\ UNCHANGED imageVars

\* if (!target) continue
LoopSkip ==
    /\ pc = "loop"
    /\ i <= Len(cells)
    /\ querySelector(slots, cells[i].id) = 0
    /\ i' = OnNoTarget(i)
    /\ UNCHANGED <<src, origin, pc, settings, cells, slots, trace>>
    /\ UNCHANGED imageVars

\* await MarkdownRenderer.renderMarkdown(cell.content, target, ...): the call
LoopRender ==
    /\ pc = "loop"
    /\ i <= Len(cells)
    /\ querySelector(slots, cells[i].id) # 0
    /\ pc' = "await"
    /\ trace' = Append(trace, <<"start", i>>)
    /\ UNCHANGED <<src, origin, settings, cells, slots, i>>
    /\ UNCHANGED imageVars

\* the render of cell i completes
RenderResolve ==
    /\ pc = "await"
    /\ slots' = renderMarkdown(slots, querySelector(slots, cells[i].id), i)
    /\ pc' = "resumed"
    /\ trace' = Append(trace, <<"done", i>>)
    /\ UNCHANGED <<src, origin, settings, cells, i>>
    /\ UNCHANGED imageVars

\* the render of cell i fails, with or without content left in the slot;
\* the catch block logs the error
RenderReject ==
    /\ pc = "await"
    /\ \E partial \in BOOLEAN :
         slots' = IF partial
                  THEN renderMarkdown(slots, querySelector(slots, cells[i].id), i)
                  ELSE slots
    /\ pc' = OnRenderError
    /\ trace' = Append(trace, <<"fail", i>>)
    /\ UNCHANGED <<src, origin, settings, cells, i>>
    /\ UNCHANGED imageVars

\* this.fixImages(target, settings.columns), and on to the next cell
FixImages ==
    /\ pc = "resumed"
    /\ slots' = fixImages(slots, querySelector(slots, cells[i].id))
    /\ trace' = Append(trace, <<"fix", i>>)
    /\ i' = i + 1
    /\ pc' = "loop"
    /\ UNCHANGED <<src, origin, settings, cells>>
    /\ UNCHANGED imageVars

NextGrid ==
    \/ TypeBlock
    \/ InsertTemplate
    \/ ProcessOther
    \/ RenderGridStart
    \/ LoopEnd
    \/ LoopSkip
    \/ LoopRender
    \/ RenderResolve
    \/ RenderReject
    \/ FixImages

InitImageIdle ==
    /\ view = FALSE
    /\ doc = <<>>
    /\ cursor = 0
    /\ written = <<>>
    /\ notice = "none"
    /\ request = <<"null", "null">>

Init == InitGrid /\ InitImageIdle

Next == NextGrid

Spec == Init /\ [][Next]_vars


(***************************************************************************)
(* Properties of the grid renderer.                                        *)
(***************************************************************************)
\* renderGrid has parsed the block and built the grid
Built == pc \in {"loop", "await", "resumed", "done", "caught"}

\* parse has just returned
AfterParse == pc = "loop" /\ i = 1

\* the id of the slot of row r and column col (both 0-based)
AddressId(r, col) == <<fromCharCode(CodeOfA + col)>> \o ToStr(r + 1)

\* C1: buildGrid creates exactly rows * columns slots, row-major, with pairwise
\* distinct ids, each the column letter followed by the 1-based row number
C1_BuildCreatesRowsTimesColumns ==
    Built =>
        LET R == settings.rows
            C == settings.columns
        IN  /\ Len(slots) = R * C
            /\ \A r \in 0..(R - 1), col \in 0..(C - 1) :
                   slots[r * C + col + 1].id = AddressId(r, col)
            /\ \A a, b \in 1..Len(slots) : a # b => slots[a].id # slots[b].id

\* C1, for settings that are positive: the same statement
C1_ForPositiveSettings ==
    (Built /\ settings.rows > 0 /\ settings.columns > 0) =>
        LET R == settings.rows
            C == settings.columns
        IN  /\ Len(slots) = R * C
            /\ \A r \in 0..(R - 1), col \in 0..(C - 1) :
                   slots[r * C + col + 1].id = AddressId(r, col)
            /\ \A a, b \in 1..Len(slots) : a # b => slots[a].id # slots[b].id

\* a cell that addresses a place outside [0, rows) x [0, columns)
OutOfRange(c) ==
    \/ c.row < 0 \/ c.row >= settings.rows
    \/ c.column < 0 \/ c.column >= settings.columns

\* the render calls of the injection loop that concern cell k
EventsOf(k) == {p \in 1..Len(trace) : trace[p][2] = k}

\* C2: an out-of-range cell stays in the cell list, no slot carries its id or
\* its content, no render is started for it, and the loop steps over it to
\* the next cell without an error
C2_OutOfRangeNeverPlaced ==
    /\ [](Built =>
            \A k \in 1..Len(cells) :
                OutOfRange(cells[k]) =>
                    /\ \A s \in 1..Len(slots) :
                           /\ slots[s].id # cells[k].id
                           /\ \A n \in 1..Len(slots[s].rendered) : slots[s].rendered[n] # k
                    /\ EventsOf(k) = {})
    /\ [][(pc = "loop" /\ i <= Len(cells) /\ OutOfRange(cells[i])) =>
            (pc' = "loop" /\ i' = i + 1 /\ slots' = slots /\ cells' = cells)]_vars

\* C2 witness: an out-of-range cell was stepped over and a later cell rendered
C2_Witness ==
    /\ pc = "done"
    /\ \E k \in 1..Len(cells) :
           /\ OutOfRange(cells[k])
           /\ \E later \in (k + 1)..Len(cells) : <<"fix", later>> \in {trace[p] : p \in 1..Len(trace)}

\* whether the parser is in settings mode when it reads line j
InSettingsBefore(lines, j) ==
    \E g \in 1..(j - 1) :
        /\ Trim(lines[g]) = SettingsMarker
        /\ \A h \in (g + 1)..(j - 1) : Trim(lines[h]) # <<>>

\* the cell-marker lines read outside settings mode
MarkerLines(lines) ==
    {j \in 1..Len(lines) : IsCellMarker(Trim(lines[j])) /\ ~InSettingsBefore(lines, j)}

\* the n-th smallest member of a set of line numbers
NthOf(S, n) == CHOOSE j \in S : Cardinality({m \in S : m < j}) = n - 1

\* C3: parse returns one cell per cell-marker line read outside settings mode,
\* in encounter order, the cell open at the end of input included, each with
\* column = code of the letter - code of "A" and row = number - 1
C3_OneCellPerMarker ==
    AfterParse =>
        LET markers == MarkerLines(src)
        IN  /\ Len(cells) = Cardinality(markers)
            /\ \A n \in 1..Len(cells) :
                   LET id == MarkerId(Trim(src[NthOf(markers, n)]))
                   IN  /\ cells[n].id = id
                       /\ cells[n].column = charCodeAt(id[1]) - charCodeAt("A")
                       /\ cells[n].row = DecVal(Tail(id)) - 1

\* C3 witness: a block whose only cell is A1 (row 0, column 0), with a second
\* marker that the settings section swallowed
C3_Witness ==
    /\ AfterParse
    /\ Len(cells) = 1
    /\ cells[1].id = <<"A", "1">> /\ cells[1].row = 0 /\ cells[1].column = 0
    /\ \E j \in 1..Len(src) : IsCellMarker(Trim(src[j])) /\ InSettingsBefore(src, j)

\* C7: the settings parse returns have positive columns and rows, and both
\* are 2 when the block has no settings section
C7_SettingsArePositive ==
    Built =>
        /\ settings.columns >= 1
        /\ settings.rows >= 1
        /\ (\A j \in 1..Len(src) : Trim(src[j]) # SettingsMarker) =>
               (settings.columns = 2 /\ settings.rows = 2)

\* the cells that carry the id of slot s
CellsOfSlot(s) == {k \in 1..Len(cells) : cells[k].id = slots[s].id}

\* C8: a slot whose id several cells carry ends up with the content of the
\* last of them alone
C8_DuplicateIdsOverwrite ==
    pc = "done" =>
        \A s \in 1..Len(slots) :
            Cardinality(CellsOfSlot(s)) >= 2 =>
                slots[s].rendered = <<SetMax(CellsOfSlot(s))>>

\* the order of the render calls: a render starts first or right after the
\* images of an earlier cell were fixed; it completes or fails right after it
\* started; the images are fixed right after it completed; nothing follows a
\* failure
TraceOrdered ==
    \A p \in 1..Len(trace) :
        LET e == trace[p]
        IN  CASE e[1] = "start" ->
                    p = 1 \/ (trace[p - 1][1] = "fix" /\ trace[p - 1][2] < e[2])
              [] e[1] = "done" -> p > 1 /\ trace[p - 1] = <<"start", e[2]>>
              [] e[1] = "fix" -> p > 1 /\ trace[p - 1] = <<"done", e[2]>>
              [] e[1] = "fail" ->
                    p = Len(trace) /\ p > 1 /\ trace[p - 1] = <<"start", e[2]>>

HasFailed == \E p \in 1..Len(trace) : trace[p][1] = "fail"

\* C9: the cells are rendered one at a time in cell-list order; after a failed
\* render no cell is rendered, the failure ends in the catch block of
\* renderGrid, and the slots built earlier stay in place
C9_SequentialRender ==
    /\ [](TraceOrdered /\ (HasFailed => pc = "caught"))
    /\ [][Built => (/\ Len(slots') = Len(slots)
                    /\ \A s \in 1..Len(slots) : slots'[s].id = slots[s].id)]_vars

\* C9 witness: a first cell was rendered and fixed, the render of a second one
\* failed, and a third one was never rendered
C9_Witness ==
    /\ pc = "caught"
    /\ Len(trace) >= 5
    /\ i < Len(cells)
    /\ querySelector(slots, cells[Len(cells)].id) # 0

\* C10: parsing makeTemplate(cols, rows) for cols <= 26 gives back the two
\* counts and rows * cols cells whose ids are the slot ids, in the same order,
\* so no slot gets the placeholder
C10_TemplateRoundTrip ==
    (Built /\ origin.kind = "template" /\ origin.cols <= Len(Letters)) =>
        /\ settings.columns = origin.cols
        /\ settings.rows = origin.rows
        /\ Len(cells) = origin.rows * origin.cols
        /\ Len(slots) = Len(cells)
        /\ \A k \in 1..Len(cells) :
               /\ cells[k].id = slots[k].id
               /\ ~slots[k].placeholder

\* C10 witness: the template with all 26 letters went through the renderer
C10_Witness ==
    /\ pc = "done"
    /\ origin.kind = "template"
    /\ origin.cols = Len(Letters)
    /\ origin.rows >= 2


(***************************************************************************)
(* Image context menu: updateImageMarkdownInEditor.                         *)
(***************************************************************************)
ImageOpen == "![["

ImageClose == "]]"

Backquote == "<backquote>"

\* a null argument
Null == "null"

RecognizedModifiers ==
    {"left", "right", "center", "float-left", "float-right", "small", "medium", "large"}

\* imageRegex.exec(line) from lastIndex 0, /!\[\[([^\]]*)\]\]/: the leftmost
\* opening that a closing follows, up to the first closing after it
ImageRegexExec(line) ==
    LET opens == {a \in 1..Len(line) :
                     /\ line[a] = ImageOpen
                     /\ \E b \in (a + 1)..Len(line) : line[b] = ImageClose}
    IN  IF opens = {} THEN [found |-> FALSE, from |-> 0, to |-> 0]
        ELSE LET a == SetMin(opens)
             IN  [found |-> TRUE, from |-> a,
                  to |-> SetMin({b \in (a + 1)..Len(line) : line[b] = ImageClose})]

\* match[1].split('|')
ImageParts(line, m) == Split(SubSeq(line, m.from + 1, m.to - 1), "|")

\* the filter keeps a modifier unless its trimmed text is a recognized keyword
KeepModifier(mod) ==
    ~(\E kw \in RecognizedModifiers : Trim(mod) = <<kw>>)

\* modifiers.join('|'), from modifier k on
RECURSIVE JoinPipes(_, _)
JoinPipes(mods, k) ==
    IF k > Len(mods) THEN <<>>
    ELSE IF k = Len(mods) THEN mods[k]
    ELSE mods[k] \o <<"|">> \o JoinPipes(mods, k + 1)

\* the modifier list after the filter and the two pushes
NewModifiers(mods, position, size) ==
    SelectSeq(mods, KeepModifier)
    \o (IF position # Null /\ position # "clear" THEN <<<<position>>>> ELSE <<>>)
    \o (IF size # Null THEN <<<<size>>>> ELSE <<>>)

\* newImageSyntax
NewImageSyntax(filename, mods) ==
    IF Len(mods) > 0
    THEN <<ImageOpen>> \o filename \o <<"|">> \o JoinPipes(mods, 1) \o <<ImageClose>>
    ELSE <<ImageOpen>> \o filename \o <<ImageClose>>

\* str.indexOf(pattern), 1-based, 0 when absent
IndexOf(str, pattern) ==
    LET at == {a \in 1..(Len(str) - Len(pattern) + 1) :
                  SubSeq(str, a, a + Len(pattern) - 1) = pattern}
    IN  IF at = {} THEN 0 ELSE SetMin(at)

\* the replacement text of String.prototype.replace, from atom k on: "$$" is
\* "$", "$&" the match, "$`" the text before it, "$'" the text after it;
\* a "$" before anything else stands for itself
RECURSIVE GetSubstitution(_, _, _, _, _)
GetSubstitution(repl, k, matched, pre, post) ==
    IF k > Len(repl) THEN <<>>
    ELSE IF repl[k] = "$" /\ k < Len(repl) /\ repl[k + 1] \in {"$", "&", Backquote, "'"}
         THEN (CASE repl[k + 1] = "$" -> <<"$">>
                 [] repl[k + 1] = "&" -> matched
                 [] repl[k + 1] = Backquote -> pre
                 [] repl[k + 1] = "'" -> post)
              \o GetSubstitution(repl, k + 2, matched, pre, post)
    ELSE <<repl[k]>> \o GetSubstitution(repl, k + 1, matched, pre, post)

\* line.replace(fullMatch, newImageSyntax) for two strings
StringReplace(str, pattern, repl) ==
    LET a == IndexOf(str, pattern)
        pre == SubSeq(str, 1, a - 1)
        post == SubSeq(str, a + Len(pattern), Len(str))
    IN  IF a = 0 THEN str
        ELSE pre \o GetSubstitution(repl, 1, pattern, pre, post) \o post

\* the body of the while loop for the first match of a line
RewriteLine(line, position, size) ==
    LET m == ImageRegexExec(line)
        fullMatch == SubSeq(line, m.from, m.to)
        parts == ImageParts(line, m)
        modifiers == NewModifiers(Tail(parts), position, size)
    IN  StringReplace(line, fullMatch, NewImageSyntax(parts[1], modifiers))

\* the editor lines the for loop visits, in order (0-based)
Window(lines, cur) ==
    LET lo == IF cur - 2 > 0 THEN cur - 2 ELSE 0
        hi == IF Len(lines) - 1 < cur + 2 THEN Len(lines) - 1 ELSE cur + 2
    IN  lo..hi

\* the loop without its break: every line of the window that holds a match
LinesToRewrite_NoBreak(lines, cur) ==
    {l \in Window(lines, cur) : ImageRegexExec(lines[l + 1]).found}

\* the lines the loop passes to editor.setLine: the first line of the window
\* that holds a match, then break
LinesToRewrite(lines, cur) ==
    LET hits == {l \in Window(lines, cur) : ImageRegexExec(lines[l + 1]).found}
    IN  IF hits = {} THEN {} ELSE {SetMin(hits)}

updateImageMarkdownInEditor(position, size) ==
    /\ request' = <<position, size>>
    /\ IF ~view
       THEN /\ notice' = "none"
            /\ written' = <<>>
            /\ doc' = doc
       ELSE LET targets == LinesToRewrite(doc, cursor)
            IN  /\ doc' = [l \in 1..Len(doc) |->
                              IF (l - 1) \in targets
                              THEN RewriteLine(doc[l], position, size)
                              ELSE doc[l]]
                /\ written' = IF targets = {} THEN <<>> ELSE <<SetMin(targets)>>
                /\ notice' = IF targets = {} THEN "notfound" ELSE "rewritten"
    /\ UNCHANGED <<view, cursor>>
    /\ UNCHANGED gridVars

\* the strings the menu items pass
MenuPositions == {"float-left", "float-right", "center"}

MenuSizes == {"small", "medium", "large"}

\* lines stay within the bound of the model
WithinBound == \A l \in 1..Len(doc) : Len(doc[l]) <= MaxLineLen

applyImagePosition ==
    /\ WithinBound
    /\ \E position \in MenuPositions : updateImageMarkdownInEditor(position, Null)

applyImageSize ==
    /\ WithinBound
    /\ \E size \in MenuSizes : updateImageMarkdownInEditor(Null, size)

clearImageStyles ==
    /\ WithinBound
    /\ updateImageMarkdownInEditor("clear", Null)

(***************************************************************************)
(* The documents the editor may hold.                                      *)
(***************************************************************************)
ModifierTexts ==
    { <<"left">>, <<"small">>, <<" ", "medium", " ">>, <<"caption=foo">>,
      <<"$", "&">>, <<>> }

FileNames == { <<"pic.png">>, <<"a", "$", "$", "b.png">> }

Reference(filename, mods) == NewImageSyntax(filename, mods)

\* one line around one reference, alone, after text, or before a second one
RichLines ==
    { pre \o Reference(f, mods) \o post :
        pre \in {<<>>, <<"text", " ">>},
        f \in FileNames,
        mods \in SeqsUpTo(ModifierTexts, MaxModifiers),
        post \in {<<>>, <<" ">> \o Reference(<<"b.png">>, <<<<"right">>>>)} }

PlainLines ==
    { <<"text">>,
      Reference(<<"pic.png">>, <<<<"left">>, <<"small">>>>),
      <<"x", " ">> \o Reference(<<"b.png">>, <<<<"caption=foo">>>>)
          \o <<" ">> \o Reference(<<"c.png">>, <<>>) }

Documents ==
    {<<line>> : line \in RichLines}
    \cup (SeqsUpTo(PlainLines, MaxDocLines) \ {<<>>})

InitDocument ==
    /\ view \in BOOLEAN
    /\ doc \in Documents
    /\ cursor \in 0..(Len(doc) - 1)
    /\ written = <<>>
    /\ notice = "none"
    /\ request = <<Null, Null>>

NextImage ==
    \/ applyImagePosition
    \/ applyImageSize
    \/ clearImageStyles

InitImage == InitGrid /\ InitDocument

SpecImage == InitImage /\ [][NextImage]_vars


(***************************************************************************)
(* Properties of the image context menu.                                   *)
(***************************************************************************)
PositionWords == {"left", "right", "center", "float-left", "float-right"}

SizeWords == {"small", "medium", "large"}

IsPositionToken(mod) == \E kw \in PositionWords : Trim(mod) = <<kw>>

IsSizeToken(mod) == \E kw \in SizeWords : Trim(mod) = <<kw>>

\* a modifier that is none of the recognized keywords
IsUnrecognized(mod) == ~IsPositionToken(mod) /\ ~IsSizeToken(mod)

\* the filename and the modifiers of the first reference of a line
FilenameOf(line) == ImageParts(line, ImageRegexExec(line))[1]

ModifiersOf(line) == Tail(ImageParts(line, ImageRegexExec(line)))

\* C4: a rewrite leaves the filename and the unrecognized modifiers of the
\* reference as they were, in their order
C4_UnrecognizedSurvive ==
    [][(notice' = "rewritten") =>
          LET old == doc[written'[1] + 1]
              new == doc'[written'[1] + 1]
          IN  /\ ImageRegexExec(new).found
              /\ ImageRegexExec(new).from = ImageRegexExec(old).from
              /\ FilenameOf(new) = FilenameOf(old)
              /\ SelectSeq(ModifiersOf(new), IsUnrecognized)
                     = SelectSeq(ModifiersOf(old), IsUnrecognized)]_vars

\* C5: a rewrite that sets only the position keeps the size tokens of the
\* reference, and one that sets only the size keeps its position tokens
C5_OtherCategoryKept ==
    [][(notice' = "rewritten") =>
          LET old == doc[written'[1] + 1]
              new == doc'[written'[1] + 1]
          IN  /\ (request'[1] \notin {Null, "clear"} /\ request'[2] = Null) =>
                     /\ ImageRegexExec(new).found
                     /\ SelectSeq(ModifiersOf(new), IsSizeToken)
                            = SelectSeq(ModifiersOf(old), IsSizeToken)
              /\ (request'[1] = Null /\ request'[2] # Null) =>
                     /\ ImageRegexExec(new).found
                     /\ SelectSeq(ModifiersOf(new), IsPositionToken)
                            = SelectSeq(ModifiersOf(old), IsPositionToken)]_vars

\* the lines from max(0, cursor - 2) to min(lastLine, cursor + 2) that hold a reference
ReferencesNearCursor ==
    {l \in SetMax({0, cursor - 2})..SetMin({Len(doc) - 1, cursor + 2}) :
        ImageRegexExec(doc[l + 1]).found}

\* C6: an action writes at most one line, the first line of the window that
\* holds a reference, and in it only the first reference; with no reference
\* in the window the outcome is "not found" and the document is unchanged;
\* without an active markdown view nothing is written at all
C6_OnlyFirstInWindow ==
    [][IF ~view THEN written' = <<>> /\ doc' = doc
       ELSE
          IF ReferencesNearCursor = {}
          THEN notice' = "notfound" /\ written' = <<>> /\ doc' = doc
          ELSE LET first == SetMin(ReferencesNearCursor)
                   old == doc[first + 1]
                   new == doc'[first + 1]
                   m == ImageRegexExec(old)
               IN  /\ notice' = "rewritten"
                   /\ written' = <<first>>
                   /\ Len(doc') = Len(doc)
                   /\ \A l \in 1..Len(doc) : l # first + 1 => doc'[l] = doc[l]
                   /\ Len(new) >= Len(old) - (m.to - m.from + 1)
                   /\ SubSeq(new, 1, m.from - 1) = SubSeq(old, 1, m.from - 1)
                   /\ SubSeq(new, Len(new) - (Len(old) - m.to) + 1, Len(new))
                          = SubSeq(old, m.to + 1, Len(old))]_vars

\* C6 witness: the line written is not the cursor's, a later line of the
\* window also holds a reference, and so does a line outside the window
C6_Witness ==
    /\ view
    /\ notice = "rewritten"
    /\ written # <<>>
    /\ written[1] # cursor
    /\ \E l \in (written[1] + 1)..SetMin({Len(doc) - 1, cursor + 2}) :
           ImageRegexExec(doc[l + 1]).found
    /\ \E l \in 0..(Len(doc) - 1) :
           /\ l < cursor - 2 \/ l > cursor + 2
           /\ ImageRegexExec(doc[l + 1]).found

\* C6, second case reached: no reference within two lines, one three lines away
C6_NotFoundThreeAway ==
    /\ view
    /\ notice = "notfound"
    /\ \E l \in 0..(Len(doc) - 1) :
           /\ l = cursor - 3 \/ l = cursor + 3
           /\ ImageRegexExec(doc[l + 1]).found

====
